---- MODULE Spec2Model ----
(***************************************************************************)
(* Model of the audio playback subsystem of sim: the Audio singleton       *)
(* (audio.h / audio.cpp), its caller Speech::speak and the UI's device     *)
(* list handlers.  The control-flow context (the UI thread) executes one   *)
(* handler at a time; pc is its position.  The hardware pull callback and  *)
(* the set of devices the backend reports are the environment.             *)
(***************************************************************************)
EXTENDS Integers, Sequences, FiniteSets, TLC

(* ----------------------------- bounds ---------------------------------- *)
\* number of distinct physical playback devices that can ever be plugged in
MaxDevices == 2
\* number of SoundPayload objects allocated over a run (audio.cpp:88)
MaxSounds == 3
\* the same, for the runs that vary the devices
MaxDeviceSounds == 2
\* the same, for the runs that vary the arguments of playAudioData
MaxCallSounds == 1
\* the same, for the runs that follow the resampler over several calls
MaxRateSounds == 2

(* ------------------------ program constants ---------------------------- *)
AUDIO_DEFAULT_SAMPLE_RATE == 48000

\* value of a ma_device_id after std::memset(.., 0, ..)
ZeroId == 0
DeviceIds == 1..MaxDevices
SoundIds == 1..MaxSounds

\* the empty std::unique_ptr<CDevice> / std::unique_ptr<CResampler>
NoDevice == [open |-> FALSE]
NoResampler == [present |-> FALSE]

\* argument values a caller passes to playAudioData
ChannelArgs == {0, 1, 2}
SampleRateArgs == {0, 22050, AUDIO_DEFAULT_SAMPLE_RATE}
BitsArgs == {0, 8, 12, 16}
SizeArgs == {0, 1, 2}
BufferArgs == {"null", "heap"}
\* contents of a buffer of n bytes: all zero, or a different value at
\* every offset
BytesArgs(n) == {[i \in 1..n |-> 0], [i \in 1..n |-> i]}
\* size_t indexes a caller passes to selectDevice: MaxDevices is out of range
\* for every list
IndexArgs == 0..MaxDevices

\* bytes is the content of the memory buffer points to (bufferSize bytes)
NoReq == [channels |-> 0, sampleRate |-> 0, bitsPerSample |-> 0,
          bufferSize |-> 0, buffer |-> "none", bytes |-> <<>>,
          deviceIndex |-> 0]

\* a buffer of n zero bytes
Zeros(n) == [i \in 1..n |-> 0]

Request(channels, sampleRate, bitsPerSample, bufferSize, buffer) ==
    [NoReq EXCEPT !.channels = channels, !.sampleRate = sampleRate,
                  !.bitsPerSample = bitsPerSample, !.bufferSize = bufferSize,
                  !.buffer = buffer,
                  !.bytes = IF buffer = "heap" THEN Zeros(bufferSize) ELSE <<>>]

\* a SoundPayload slot: not allocated yet / live / deleted; its two native
\* handles (null or constructed); whether ma_sound_start succeeded; whether
\* ma_sound_at_end reports the end; pcmData and the number of frames of it
\* the data source covers; how many times the object has been deleted
NoPayload == [state |-> "unallocated", sound |-> FALSE, audioBuffer |-> FALSE,
              started |-> FALSE, atEnd |-> FALSE, pcmData |-> <<>>,
              frameCount |-> 0, deletes |-> 0]
DeletedPayload == [NoPayload EXCEPT !.state = "deleted", !.deletes = 1]

\* locals of the call in progress.  deviceInfos is the list the backend
\* reported to getDevicesList (audio.cpp:7-19); wasCurrent records whether the
\* open device was the desired one when playAudioData was entered and
\* finishedAtEntry the registered sounds that had reached their end by then;
\* updateResampler records the branch of updateResampler the call took,
\* result the ma_result of processAudioData, uninits the native teardown
\* calls the call made on its own payload, in order.
NoLocal == [format |-> "unknown", frameCountIn |-> 0, frameCountOut |-> 0,
            pPayload |-> 0, resampled |-> FALSE, deviceInfos |-> <<>>,
            wasCurrent |-> FALSE, updateResampler |-> "none",
            result |-> "none", uninits |-> <<>>, finishedAtEntry |-> {},
            erased |-> 0]

\* delete pPayload: ~SoundPayload runs and the object is gone
Delete(p) == [DeletedPayload EXCEPT !.deletes = p.deletes + 1]

VARIABLES
    m_lastDevicesList,   \* Audio::m_lastDevicesList
    m_selectedDeviceID,  \* Audio::m_selectedDeviceID  (the desired identity)
    m_currentDeviceID,   \* Audio::m_currentDeviceID
    m_hasCurrentDevice,  \* Audio::m_hasCurrentDevice
    m_device,            \* Audio::m_device: the CDevice it owns, or NoDevice
    newDevice,           \* the CDevice std::make_unique built, not yet assigned
    m_resampler,         \* Audio::m_resampler: the CResampler, or NoResampler
    sounds,              \* Audio::sounds: the registry, a vector of payloads
    payload,             \* the SoundPayload heap objects, by allocation number
    nextSound,           \* allocation number of the next new SoundPayload
    pc,                  \* position of the control-flow context
    req,                 \* arguments of the playAudioData call in progress
    local,               \* locals of the playAudioData call in progress
    bufFreed,            \* how many times free(buffer) ran in this call
    ret,                 \* how the call ended: "true", "false", "fatal"
    lastLog,             \* the last warning or error the call in progress logged
    engine,              \* the CAudioEngine singleton: "none", "live", "uninit"
    context,             \* the CAudioContext singleton: "live", "uninit"
    atexit               \* the singletons the exiting process has yet to destroy

vars == <<m_lastDevicesList, m_selectedDeviceID, m_currentDeviceID,
          m_hasCurrentDevice, m_device, newDevice, m_resampler, sounds,
          payload, nextSound, pc, req, local, bufFreed, ret, lastLog,
          engine, context, atexit>>

deviceVars == <<m_currentDeviceID, m_hasCurrentDevice, m_device, newDevice>>
soundVars == <<sounds, payload, nextSound>>
callVars == <<req, local, bufFreed, ret, lastLog>>
singletonVars == <<engine, context, atexit>>

(* ----------------------------- helpers --------------------------------- *)
Range(s) == {s[i] : i \in DOMAIN s}

\* struct DeviceInfo; the display name plays no part in any decision
DeviceInfo(id, isDefault) == [id |-> id, isDefault |-> isDefault]

\* the lists a backend can report: distinct identities, at most one default
DeviceLists ==
    {l \in UNION {[1..n -> [id : DeviceIds, isDefault : BOOLEAN]] : n \in 0..MaxDevices} :
        /\ \A i, j \in DOMAIN l : i # j => l[i].id # l[j].id
        /\ Cardinality({i \in DOMAIN l : l[i].isDefault}) <= 1}

\* the comparator given to std::sort: first.isDefault > second.isDefault
DefaultFirst(first, second) == first.isDefault /\ ~second.isDefault

\* std::sort: some permutation ordered by the comparator; the order of
\* elements the comparator holds equivalent is unspecified
SortOutcomes(l) ==
    {p \in {[i \in DOMAIN l |-> l[f[i]]] : f \in Permutations(DOMAIN l)} :
        \A i, j \in DOMAIN p : i < j => ~DefaultFirst(p[j], p[i])}

\* std::find_if(devices, ma_device_id_equal(&device.id, &id)) != end
HasDevice(devices, id) == \E i \in DOMAIN devices : devices[i].id = id

\* determineFormat without the case for 24 bits
determineFormatWithout24(bitsPerSample) ==
    CASE bitsPerSample = 8 -> "u8"
      [] bitsPerSample = 16 -> "s16"
      [] bitsPerSample = 32 -> "s32"
      [] OTHER -> "unknown"

determineFormat(bitsPerSample) ==
    CASE bitsPerSample = 8 -> "u8"
      [] bitsPerSample = 16 -> "s16"
      [] bitsPerSample = 24 -> "s24"
      [] bitsPerSample = 32 -> "s32"
      [] OTHER -> "unknown"


(* ------------------- Audio::Audio() (audio.h:156-166) ------------------ *)
\* the desired identity the constructor records for the list it enumerated
InitialSelection(devices) ==
    IF devices = <<>> THEN ZeroId ELSE devices[1].id

\* The state once the constructor has enumerated the devices; were that to
\* fail, the exception would end the program before any handler runs.
InitWith(Lists) ==
    /\ \E deviceInfos \in Lists : m_lastDevicesList \in SortOutcomes(deviceInfos)
    /\ m_selectedDeviceID = InitialSelection(m_lastDevicesList)
    /\ m_currentDeviceID = ZeroId
    /\ m_hasCurrentDevice = FALSE
    /\ m_device = NoDevice
    /\ newDevice = NoDevice
    /\ m_resampler = NoResampler
    /\ sounds = <<>>
    /\ payload = [s \in SoundIds |-> NoPayload]
    /\ nextSound = 1
    /\ pc = "idle"
    /\ req = NoReq
    /\ local = NoLocal
    /\ bufFreed = 0
    /\ ret = "none"
    /\ lastLog = "none"
    /\ engine = "none"
    /\ context = "live"
    /\ atexit = <<>>

(* ------------------------- the singletons ------------------------------ *)
\* CSingleton<T>::GetInstance: one instance per process, built at its first
\* use
GetInstance(instance) == IF instance = "none" THEN "live" ELSE instance

\* The instances are destroyed when the process exits, in the reverse order
\* of their construction: the Backend Handle is built inside Audio's
\* constructor (audio.cpp:10), the Mixing Engine at its first use after it.
ExitOrder ==
    (IF engine = "live" THEN <<"CAudioEngine">> ELSE <<>>)
    \o <<"Audio", "CAudioContext">>

(* --------------- Audio::getDevicesList (audio.cpp:6-24) ---------------- *)
\* Called by MainFrame::populateDevicesList (ui.cpp:120).  deviceInfos is
\* what ma_context_get_devices reports at this moment: devices are plugged
\* in and unplugged and the default changes between any two enumerations.
\* ok = FALSE is the backend failing, which throws.
GetDevicesList(ok, deviceInfos) ==
    /\ pc = "idle"
    /\ IF ~ok
       THEN /\ pc' = "fatal"
            /\ ret' = "fatal"
            /\ lastLog' = "Failed to get list of devices"
            /\ UNCHANGED <<m_lastDevicesList, local>>
       ELSE /\ \E sorted \in SortOutcomes(deviceInfos) : m_lastDevicesList' = sorted
            /\ local' = [NoLocal EXCEPT !.deviceInfos = deviceInfos]
            /\ pc' = "listed"
            /\ UNCHANGED <<ret, lastLog>>
    /\ UNCHANGED <<singletonVars, m_selectedDeviceID, deviceVars, m_resampler,
                   soundVars, req, bufFreed>>

(* ---------------- Audio::selectDevice (audio.cpp:26-36) ---------------- *)
\* lines 31-34 clamping to the last entry instead of entry 0
SelectedAfterClampsToLast(devices, selected, deviceIndex) ==
    IF devices = <<>> THEN selected
    ELSE IF deviceIndex >= Len(devices) THEN devices[Len(devices)].id
    ELSE devices[deviceIndex + 1].id

\* the desired identity after selectDevice(deviceIndex); deviceIndex is a
\* size_t, TLA+ sequences start at 1
SelectedAfter(devices, selected, deviceIndex) ==
    IF devices = <<>> THEN selected
    ELSE IF deviceIndex >= Len(devices) THEN devices[1].id
    ELSE devices[deviceIndex + 1].id

\* selectDevice also recording the selection as the current device
SelectDeviceSetsCurrent(deviceIndex) ==
    /\ pc = "idle"
    /\ m_selectedDeviceID' =
           SelectedAfter(m_lastDevicesList, m_selectedDeviceID, deviceIndex)
    /\ m_currentDeviceID' = m_selectedDeviceID'
    /\ pc' = "selected"
    /\ req' = [NoReq EXCEPT !.deviceIndex = deviceIndex]
    /\ lastLog' = "none"
    /\ UNCHANGED <<singletonVars, m_lastDevicesList, m_hasCurrentDevice, m_device, newDevice,
                   m_resampler, soundVars, local, bufFreed, ret>>

SelectDevice(deviceIndex) ==
    /\ pc = "idle"
    /\ m_selectedDeviceID' =
           SelectedAfter(m_lastDevicesList, m_selectedDeviceID, deviceIndex)
    /\ pc' = "selected"
    /\ req' = [NoReq EXCEPT !.deviceIndex = deviceIndex]
    /\ lastLog' = IF m_lastDevicesList = <<>>
                  THEN "Cannot select audio device: device list is empty"
                  ELSE IF deviceIndex >= Len(m_lastDevicesList)
                  THEN "Device index is out of range. Falling back to 0."
                  ELSE "none"
    /\ UNCHANGED <<singletonVars, m_lastDevicesList, deviceVars, m_resampler,
                   soundVars, local, bufFreed, ret>>


(* --------------- Audio::playAudioData (audio.cpp:38-142) --------------- *)
\* Validate without the free() of the metadata branch (line 48)
ValidateLeaksOnBadMetadata(channels, sampleRate, bitsPerSample, bufferSize, buffer) ==
    IF buffer = "null"
    THEN [ret |-> "false", freed |-> 0, log |-> "Speech buffer was nullptr"]
    ELSE IF channels <= 0 \/ bitsPerSample <= 0 \/ sampleRate <= 0
    THEN [ret |-> "false", freed |-> 0, log |-> "Invalid audio metadata"]
    ELSE IF determineFormat(bitsPerSample) = "unknown"
    THEN [ret |-> "false", freed |-> 1, log |-> "Unsupported bits per sample value"]
    ELSE IF bufferSize = 0
    THEN [ret |-> "true", freed |-> 1, log |-> "none"]
    ELSE [ret |-> "pass", freed |-> 0, log |-> "none"]

\* Validate with the zero-length check (line 57) moved before the metadata
\* checks
ValidateLengthFirst(channels, sampleRate, bitsPerSample, bufferSize, buffer) ==
    IF buffer = "null"
    THEN [ret |-> "false", freed |-> 0, log |-> "Speech buffer was nullptr"]
    ELSE IF bufferSize = 0
    THEN [ret |-> "true", freed |-> 1, log |-> "none"]
    ELSE IF channels <= 0 \/ bitsPerSample <= 0 \/ sampleRate <= 0
    THEN [ret |-> "false", freed |-> 1, log |-> "Invalid audio metadata"]
    ELSE IF determineFormat(bitsPerSample) = "unknown"
    THEN [ret |-> "false", freed |-> 1, log |-> "Unsupported bits per sample value"]
    ELSE [ret |-> "pass", freed |-> 0, log |-> "none"]

\* Validate without the zero-length check (lines 57-60): an empty buffer
\* goes on to the device and the resampler
ValidateWithoutLengthCheck(channels, sampleRate, bitsPerSample, bufferSize, buffer) ==
    IF buffer = "null"
    THEN [ret |-> "false", freed |-> 0, log |-> "Speech buffer was nullptr"]
    ELSE IF channels <= 0 \/ bitsPerSample <= 0 \/ sampleRate <= 0
    THEN [ret |-> "false", freed |-> 1, log |-> "Invalid audio metadata"]
    ELSE IF determineFormat(bitsPerSample) = "unknown"
    THEN [ret |-> "false", freed |-> 1, log |-> "Unsupported bits per sample value"]
    ELSE [ret |-> "pass", freed |-> 0, log |-> "none"]

\* lines 40-60: the checks made before anything is touched.  The outcome is
\* what the call returns ("pass": it goes on), how often it frees the buffer
\* and what it logs.
Validate(channels, sampleRate, bitsPerSample, bufferSize, buffer) ==
    IF buffer = "null"
    THEN [ret |-> "false", freed |-> 0, log |-> "Speech buffer was nullptr"]
    ELSE IF channels <= 0 \/ bitsPerSample <= 0 \/ sampleRate <= 0
    THEN [ret |-> "false", freed |-> 1, log |-> "Invalid audio metadata"]
    ELSE IF determineFormat(bitsPerSample) = "unknown"
    THEN [ret |-> "false", freed |-> 1, log |-> "Unsupported bits per sample value"]
    ELSE IF bufferSize = 0
    THEN [ret |-> "true", freed |-> 1, log |-> "none"]
    ELSE [ret |-> "pass", freed |-> 0, log |-> "none"]

\* Speech::speak hands the synthesiser's buffer over (speech.cpp:80)
PlayAudioData(channels, sampleRate, bitsPerSample, bufferSize, buffer, bytes) ==
    /\ pc = "idle"
    /\ LET v == Validate(channels, sampleRate, bitsPerSample, bufferSize, buffer)
       IN /\ req' = [Request(channels, sampleRate, bitsPerSample, bufferSize, buffer)
                        EXCEPT !.bytes = bytes]
          /\ local' = [NoLocal EXCEPT !.format = determineFormat(bitsPerSample),
                                      !.wasCurrent =
                                          /\ m_hasCurrentDevice
                                          /\ m_currentDeviceID = m_selectedDeviceID,
                                      !.finishedAtEntry =
                                          {s \in Range(sounds) : payload[s].atEnd}]
          /\ bufFreed' = v.freed
          /\ lastLog' = v.log
          /\ IF v.ret = "pass"
             THEN pc' = "getDevices" /\ ret' = "none"
             ELSE pc' = "returned" /\ ret' = v.ret
    /\ UNCHANGED <<singletonVars, m_lastDevicesList, m_selectedDeviceID, deviceVars,
                   m_resampler, soundVars>>

\* lines 68-73 without the fallback
ResolveSelectionKeeps(devices, selected) == selected

\* lines 68-73: the desired identity after the fresh enumeration
ResolveSelection(devices, selected) ==
    IF HasDevice(devices, selected) THEN selected ELSE devices[1].id

\* lines 62-73: re-enumerate (getDevicesList as above), give up without
\* devices, fall back to entry 0
PlayGetDevices(ok, deviceInfos) ==
    /\ pc = "getDevices"
    /\ IF ~ok
       THEN /\ pc' = "fatal"
            /\ ret' = "fatal"
            /\ lastLog' = "Failed to get list of devices"
            /\ UNCHANGED <<m_lastDevicesList, m_selectedDeviceID, bufFreed>>
       ELSE \E devices \in SortOutcomes(deviceInfos) :
            /\ m_lastDevicesList' = devices
            /\ IF devices = <<>>
               THEN /\ lastLog' = "No playback devices are available"
                    /\ bufFreed' = bufFreed + 1
                    /\ pc' = "returned"
                    /\ ret' = "false"
                    /\ UNCHANGED m_selectedDeviceID
               ELSE /\ m_selectedDeviceID' = ResolveSelection(devices, m_selectedDeviceID)
                    /\ lastLog' = IF HasDevice(devices, m_selectedDeviceID)
                                  THEN lastLog
                                  ELSE "Selected audio device is unavailable. Falling back to index 0."
                    /\ pc' = "freeSounds"
                    /\ UNCHANGED <<bufFreed, ret>>
    /\ UNCHANGED <<singletonVars, deviceVars, m_resampler, soundVars, req, local>>

(* ------------------ Audio::freeSounds (audio.h:241-257) ---------------- *)
\* line 244 with onlyUnused in place of !onlyUnused
ReclaimedModeInverted(s, onlyUnused) ==
    onlyUnused \/ (payload[s].sound /\ payload[s].atEnd)

\* the predicate of std::remove_if: this registered payload is deleted
Reclaimed(s, onlyUnused) ==
    ~onlyUnused \/ (payload[s].sound /\ payload[s].atEnd)

Kept(onlyUnused) ==
    SelectSeq(sounds, LAMBDA s : ~Reclaimed(s, onlyUnused))

\* line 252: sounds.erase(it, sounds.end()), the number of entries that
\* leave the registry
Erased(onlyUnused) == Len(sounds) - Len(Kept(onlyUnused))

DeleteReclaimed(onlyUnused) ==
    [s \in SoundIds |->
        IF s \in Range(sounds) /\ Reclaimed(s, onlyUnused)
        THEN Delete(payload[s])
        ELSE payload[s]]

\* playAudioData without line 75
PlayFreeSoundsSkipped ==
    /\ pc = "freeSounds"
    /\ pc' = "updateDevice"
    /\ UNCHANGED <<singletonVars, m_lastDevicesList, m_selectedDeviceID,
                   deviceVars, m_resampler, soundVars, callVars>>

\* line 75: freeSounds() with the default onlyUnused = true
PlayFreeSounds ==
    /\ pc = "freeSounds"
    /\ sounds' = Kept(TRUE)
    /\ payload' = DeleteReclaimed(TRUE)
    /\ local' = [local EXCEPT !.erased = Erased(TRUE)]
    /\ pc' = "updateDevice"
    /\ UNCHANGED <<singletonVars, m_lastDevicesList, m_selectedDeviceID, deviceVars,
                   m_resampler, nextSound, req, bufFreed, ret, lastLog>>


(* ----------------- Audio::updateDevice (audio.h:184-193) --------------- *)
\* line 185 without the comparison of the identities: any open device counts
\* as a different one
DeviceIsNeverCurrent ==
    m_hasCurrentDevice /\ m_currentDeviceID # m_selectedDeviceID

\* line 185: the open device already is the desired one
DeviceIsCurrent ==
    m_hasCurrentDevice /\ m_currentDeviceID = m_selectedDeviceID

\* updateDevice releasing the previous device before the new one is built
PlayUpdateDeviceClosesFirst ==
    /\ pc = "updateDevice"
    /\ IF DeviceIsCurrent
       THEN /\ pc' = "updateResampler"
            /\ UNCHANGED <<newDevice, engine, ret, lastLog, m_device>>
       ELSE \E engineOk, initOk \in BOOLEAN :
            IF engine = "none" /\ ~engineOk
            THEN /\ pc' = "fatal"
                 /\ ret' = "fatal"
                 /\ lastLog' = "Failed to initialize miniaudio engine"
                 /\ UNCHANGED <<newDevice, engine, m_device>>
            ELSE IF initOk
            THEN /\ newDevice' = [open |-> TRUE, id |-> m_selectedDeviceID,
                                  started |-> FALSE]
                 /\ m_device' = NoDevice
                 /\ engine' = GetInstance(engine)
                 /\ pc' = "assignDevice"
                 /\ UNCHANGED <<ret, lastLog>>
            ELSE /\ pc' = "fatal"
                 /\ ret' = "fatal"
                 /\ lastLog' = "Failed to initialize audio device"
                 /\ m_device' = NoDevice
                 /\ engine' = GetInstance(engine)
                 /\ UNCHANGED newDevice
    /\ UNCHANGED <<context, atexit, m_lastDevicesList, m_selectedDeviceID,
                   m_currentDeviceID, m_hasCurrentDevice,
                   m_resampler, soundVars, req, local, bufFreed>>

\* lines 185-189, up to the end of std::make_unique<CDevice>: CDevice's
\* constructor (audio.h:84-97) takes the engine handle, which builds the
\* engine at its first use (CAudioEngine's constructor throws when
\* ma_engine_init fails, audio.h:61-65), and opens the native device or
\* throws
PlayUpdateDevice ==
    /\ pc = "updateDevice"
    /\ IF DeviceIsCurrent
       THEN /\ pc' = "updateResampler"
            /\ UNCHANGED <<newDevice, engine, ret, lastLog>>
       ELSE \E engineOk, initOk \in BOOLEAN :
            IF engine = "none" /\ ~engineOk
            THEN /\ pc' = "fatal"
                 /\ ret' = "fatal"
                 /\ lastLog' = "Failed to initialize miniaudio engine"
                 /\ UNCHANGED <<newDevice, engine>>
            ELSE IF initOk
            THEN /\ newDevice' = [open |-> TRUE, id |-> m_selectedDeviceID,
                                  started |-> FALSE]
                 /\ engine' = GetInstance(engine)
                 /\ pc' = "assignDevice"
                 /\ UNCHANGED <<ret, lastLog>>
            ELSE /\ pc' = "fatal"
                 /\ ret' = "fatal"
                 /\ lastLog' = "Failed to initialize audio device"
                 /\ engine' = GetInstance(engine)
                 /\ UNCHANGED newDevice
    /\ UNCHANGED <<context, atexit, m_lastDevicesList, m_selectedDeviceID,
                   m_currentDeviceID, m_hasCurrentDevice, m_device,
                   m_resampler, soundVars, req, local, bufFreed>>

\* the assignment of line 189 without the release of the previous CDevice
PlayAssignDeviceKeepsPrevious ==
    /\ pc = "assignDevice"
    /\ m_device' = newDevice
    /\ newDevice' = m_device
    /\ pc' = "startDevice"
    /\ UNCHANGED <<singletonVars, m_lastDevicesList, m_selectedDeviceID,
                   m_currentDeviceID, m_hasCurrentDevice, m_resampler,
                   soundVars, callVars>>

\* line 189, the move assignment to m_device: the previous CDevice is
\* destroyed (~CDevice, audio.h:99-102) once the new one has been built
PlayAssignDevice ==
    /\ pc = "assignDevice"
    /\ m_device' = newDevice
    /\ newDevice' = NoDevice
    /\ pc' = "startDevice"
    /\ UNCHANGED <<singletonVars, m_lastDevicesList, m_selectedDeviceID,
                   m_currentDeviceID, m_hasCurrentDevice, m_resampler,
                   soundVars, callVars>>

\* lines 190-192: ma_device_start, whose result is not looked at
PlayStartDevice ==
    /\ pc = "startDevice"
    /\ \E startOk \in BOOLEAN : m_device' = [m_device EXCEPT !.started = startOk]
    /\ m_currentDeviceID' = m_selectedDeviceID
    /\ m_hasCurrentDevice' = TRUE
    /\ pc' = "updateResampler"
    /\ UNCHANGED <<singletonVars, m_lastDevicesList, m_selectedDeviceID, newDevice,
                   m_resampler, soundVars, callVars>>

(* --------------- Audio::updateResampler (audio.h:195-210) -------------- *)
\* lines 196-197 without the comparison of the sample formats
NeedsNewResamplerIgnoresFormat(format, channels) ==
    \/ ~m_resampler.present
    \/ m_resampler.channels # channels

\* lines 196-197 without the comparison of the channel counts
NeedsNewResamplerIgnoresChannels(format, channels) ==
    \/ ~m_resampler.present
    \/ m_resampler.format # format

\* lines 196-197: a new CResampler has to be constructed
NeedsNewResampler(format, channels) ==
    \/ ~m_resampler.present
    \/ m_resampler.format # format
    \/ m_resampler.channels # channels

\* CResampler::CResampler (audio.h:112-122) when ma_resampler_init succeeds:
\* the configuration the native resampler holds
NewResampler(format, channels, sampleRateIn, sampleRateOut) ==
    [present |-> TRUE, format |-> format, channels |-> channels,
     sampleRateIn |-> sampleRateIn, sampleRateOut |-> sampleRateOut]

\* setRate with the two rates given in the wrong order
SetRateSwapped(resampler, sampleRateIn, sampleRateOut) ==
    [resampler EXCEPT !.sampleRateIn = sampleRateOut,
                      !.sampleRateOut = sampleRateIn]

\* CResampler::setRate (audio.h:131-133) when ma_resampler_set_rate succeeds
SetRate(resampler, sampleRateIn, sampleRateOut) ==
    [resampler EXCEPT !.sampleRateIn = sampleRateIn,
                      !.sampleRateOut = sampleRateOut]

\* line 77: updateResampler(format, channels, sampleRate, AUDIO_DEFAULT_SAMPLE_RATE).
\* std::make_unique<CResampler> builds the new object, which throws when
\* ma_resampler_init fails, and the assignment destroys the previous one.
PlayUpdateResampler ==
    /\ pc = "updateResampler"
    /\ LET format == local.format
           channels == req.channels
           sampleRateIn == req.sampleRate
           sampleRateOut == AUDIO_DEFAULT_SAMPLE_RATE
       IN IF NeedsNewResampler(format, channels)
          THEN \E initOk \in BOOLEAN :
               IF initOk
               THEN /\ m_resampler' = NewResampler(format, channels,
                                                   sampleRateIn, sampleRateOut)
                    /\ local' = [local EXCEPT !.updateResampler = "constructed"]
                    /\ pc' = "convert"
                    /\ UNCHANGED <<ret, lastLog>>
               ELSE /\ pc' = "fatal"
                    /\ ret' = "fatal"
                    /\ lastLog' = "Failed to initialize resampler"
                    /\ UNCHANGED <<m_resampler, local>>
          ELSE IF sampleRateIn = sampleRateOut
          THEN /\ pc' = "convert"
               /\ local' = [local EXCEPT !.updateResampler = "kept"]
               /\ UNCHANGED <<m_resampler, ret, lastLog>>
          ELSE \E setOk \in BOOLEAN :
               IF setOk
               THEN /\ m_resampler' = SetRate(m_resampler, sampleRateIn, sampleRateOut)
                    /\ local' = [local EXCEPT !.updateResampler = "rateSet"]
                    /\ pc' = "convert"
                    /\ UNCHANGED <<ret, lastLog>>
               ELSE /\ pc' = "fatal"
                    /\ ret' = "fatal"
                    /\ lastLog' = "Failed to set sample rate"
                    /\ UNCHANGED <<m_resampler, local>>
    /\ UNCHANGED <<singletonVars, m_lastDevicesList, m_selectedDeviceID, deviceVars,
                   soundVars, req, bufFreed>>


(* ------------- conversion to the working rate (audio.cpp:78-110) ------- *)
\* line 78
FrameCountIn(channels, bitsPerSample, bufferSize) ==
    (bufferSize * 8) \div (channels * bitsPerSample)

\* lines 80-81: ma_resampler_get_expected_output_frame_count, for the rate
\* pair the resampler holds
ExpectedOutputFrameCount(resampler, frameCountIn) ==
    (frameCountIn * resampler.sampleRateOut) \div resampler.sampleRateIn

\* line 89: the bytes of one sample
BytesPerSample(bitsPerSample) == bitsPerSample \div 8

\* line 102 copying one byte less than bufferSize
CopiedPcmOneShort(bytes, bufferSize) == [i \in 1..(bufferSize - 1) |-> bytes[i]]

\* line 102: pcmData.assign(buffer, buffer + bufferSize)
CopiedPcm(bytes, bufferSize) == [i \in 1..bufferSize |-> bytes[i]]

\* lines 92 and 99: the n bytes the resampler wrote; the model does not
\* follow their values (-1 stands for them)
ResampledPcm(n) == [i \in 1..n |-> -1]

\* CResampler::processAudioData (audio.h:135-147): pFramesIn is the buffer,
\* which is not null here; pFramesOut is pcmData.data()
ProcessResult(dataNull, processOk) ==
    IF dataNull THEN "MA_INVALID_ARGS"
    ELSE IF ~processOk THEN "MA_ERROR"
    ELSE "MA_SUCCESS"

\* every way the call can leave lines 78-110 for the given outcomes of the
\* native calls: estimator result, whether data() of the sized output vector
\* is a null pointer (only an empty vector's can be), resampler result and
\* the number of frames it produced
ConvertOutcome(estOk, dataNull, processOk, produced) ==
    LET frameCountIn == FrameCountIn(req.channels, req.bitsPerSample, req.bufferSize)
        estimate == ExpectedOutputFrameCount(m_resampler, frameCountIn)
        sized == estimate * req.channels * BytesPerSample(req.bitsPerSample)
        result == ProcessResult(sized = 0 /\ dataNull, processOk)
    IN IF ~estOk
       THEN [ret |-> "false", freed |-> 1, allocated |-> FALSE, deleted |-> FALSE,
             frameCountIn |-> frameCountIn, frameCountOut |-> 0, resampled |-> FALSE,
             result |-> "none", pcmData |-> <<>>,
             log |-> "Failed to get expected frame count for resampling"]
       ELSE IF req.sampleRate # AUDIO_DEFAULT_SAMPLE_RATE
       THEN IF result # "MA_SUCCESS"
            THEN [ret |-> "false", freed |-> 1, allocated |-> TRUE, deleted |-> TRUE,
                  frameCountIn |-> frameCountIn, frameCountOut |-> estimate,
                  resampled |-> TRUE, result |-> result, pcmData |-> <<>>,
                  log |-> "Failed to resample audio"]
            ELSE [ret |-> IF produced = 0 THEN "true" ELSE "pass",
                  freed |-> 1, allocated |-> TRUE, deleted |-> produced = 0,
                  frameCountIn |-> frameCountIn, frameCountOut |-> produced,
                  resampled |-> TRUE, result |-> result,
                  pcmData |-> ResampledPcm(produced * req.channels
                                             * BytesPerSample(req.bitsPerSample)),
                  log |-> lastLog]
       ELSE [ret |-> IF frameCountIn = 0 THEN "true" ELSE "pass",
             freed |-> 1, allocated |-> TRUE, deleted |-> frameCountIn = 0,
             frameCountIn |-> frameCountIn, frameCountOut |-> frameCountIn,
             resampled |-> FALSE, result |-> "none",
             pcmData |-> CopiedPcm(req.bytes, req.bufferSize),
             log |-> lastLog]

PlayConvert ==
    /\ pc = "convert"
    /\ \E estOk, dataNull, processOk \in BOOLEAN :
       \E produced \in 0..ExpectedOutputFrameCount(m_resampler,
                  FrameCountIn(req.channels, req.bitsPerSample, req.bufferSize)) :
       LET o == ConvertOutcome(estOk, dataNull, processOk, produced)
       IN /\ bufFreed' = bufFreed + o.freed
          /\ lastLog' = o.log
          /\ local' = [local EXCEPT !.frameCountIn = o.frameCountIn,
                                    !.frameCountOut = o.frameCountOut,
                                    !.resampled = o.resampled,
                                    !.result = o.result,
                                    !.pPayload = IF o.allocated THEN nextSound ELSE 0]
          /\ nextSound' = IF o.allocated THEN nextSound + 1 ELSE nextSound
          /\ payload' = IF o.allocated
                        THEN [payload EXCEPT ![nextSound] =
                                 IF o.deleted THEN Delete(NoPayload)
                                 ELSE [NoPayload EXCEPT !.state = "live",
                                                        !.pcmData = o.pcmData]]
                        ELSE payload
          /\ IF o.ret = "pass"
             THEN pc' = "build" /\ UNCHANGED ret
             ELSE pc' = "returned" /\ ret' = o.ret
    /\ UNCHANGED <<singletonVars, m_lastDevicesList, m_selectedDeviceID, deviceVars,
                   m_resampler, sounds, req>>

(* ------------ building the sound object (audio.cpp:112-141) ------------ *)
\* ~SoundPayload (audio.h:225-235): the native teardown calls it makes for
\* the handles that are not null, in order
DestructorUninits(p) ==
    (IF p.sound THEN <<"ma_sound_uninit">> ELSE <<>>)
    \o (IF p.audioBuffer THEN <<"ma_audio_buffer_uninit">> ELSE <<>>)

\* ma_audio_buffer_init over frameCountOut frames of pcmData,
\* ma_sound_init_from_data_source, then registration and ma_sound_start,
\* whose result is not looked at.  When a construction fails the handle
\* that failed is reset, the data source that was built is uninitialised
\* by hand (line 132) and reset, and the payload is deleted.
PlayBuild ==
    /\ pc = "build"
    /\ LET p == local.pPayload
           bare == [payload[p] EXCEPT !.sound = FALSE, !.audioBuffer = FALSE]
       IN \E bufferOk, soundOk, startOk \in BOOLEAN :
          IF ~bufferOk
          THEN /\ lastLog' = "Failed to initialize audio buffer"
               /\ local' = [local EXCEPT !.uninits = DestructorUninits(bare)]
               /\ payload' = [payload EXCEPT ![p] = Delete(bare)]
               /\ ret' = "false"
               /\ UNCHANGED sounds
          ELSE IF ~soundOk
          THEN /\ lastLog' = "Failed to initialize sound instance"
               /\ local' = [local EXCEPT !.uninits =
                               <<"ma_audio_buffer_uninit">> \o DestructorUninits(bare)]
               /\ payload' = [payload EXCEPT ![p] = Delete(bare)]
               /\ ret' = "false"
               /\ UNCHANGED sounds
          ELSE /\ sounds' = Append(sounds, p)
               /\ payload' = [payload EXCEPT ![p].sound = TRUE,
                                             ![p].audioBuffer = TRUE,
                                             ![p].frameCount = local.frameCountOut,
                                             ![p].started = startOk]
               /\ ret' = "true"
               /\ UNCHANGED <<lastLog, local>>
    /\ pc' = "returned"
    /\ UNCHANGED <<singletonVars, m_lastDevicesList, m_selectedDeviceID, deviceVars,
                   m_resampler, nextSound, req, bufFreed>>

(* ---------------------- back in the caller ----------------------------- *)
\* the handler that made the call returns to the event loop
\* (ui.cpp:134, ui.cpp:151, ui.cpp:189)
Return ==
    /\ pc \in {"returned", "listed", "selected"}
    /\ pc' = "idle"
    /\ req' = NoReq
    /\ local' = NoLocal
    /\ bufFreed' = 0
    /\ ret' = "none"
    /\ lastLog' = "none"
    /\ UNCHANGED <<singletonVars, m_lastDevicesList, m_selectedDeviceID, deviceVars,
                   m_resampler, soundVars>>

(* -------------- Audio::audioDataCallback (audio.h:212-218) ------------- *)
\* the sounds the Mixing Engine is reading from
Playing ==
    {s \in Range(sounds) : payload[s].started /\ ~payload[s].atEnd}

\* the callback with a write to the Sound Registry: the sounds that reached
\* their end are taken out of it
AudioDataCallbackDropsEnded(ended) ==
    /\ pc # "fatal"
    /\ m_device.open /\ m_device.started
    /\ engine = "live"
    /\ ended # {} /\ ended \subseteq Playing
    /\ payload' = [s \in SoundIds |->
                     IF s \in ended THEN [payload[s] EXCEPT !.atEnd = TRUE]
                     ELSE payload[s]]
    /\ sounds' = SelectSeq(sounds, LAMBDA s : s \notin ended)
    /\ UNCHANGED <<singletonVars, m_lastDevicesList, m_selectedDeviceID, deviceVars,
                   m_resampler, nextSound, pc, callVars>>

\* The device thread of a started device asks for frames; the engine handle
\* (pUserData = g_AudioEngine, audio.h:91) is never null, so
\* ma_engine_read_pcm_frames runs; the sounds in `ended` reach their end
\* within the frames read.  No handler catches the exceptions, so "fatal" is
\* the end of the process.
AudioDataCallback(ended) ==
    /\ pc # "fatal"
    /\ m_device.open /\ m_device.started
    /\ engine = "live"
    /\ ended # {} /\ ended \subseteq Playing
    /\ payload' = [s \in SoundIds |->
                     IF s \in ended THEN [payload[s] EXCEPT !.atEnd = TRUE]
                     ELSE payload[s]]
    /\ UNCHANGED <<singletonVars, m_lastDevicesList, m_selectedDeviceID, deviceVars,
                   m_resampler, sounds, nextSound, pc, callVars>>

(* ------------------ Audio::setVolume (audio.cpp:148-150) --------------- *)
\* MainFrame::OnVolumeSliderChange (ui.cpp:141-143): the engine is built if
\* this is its first use; the volume plays no part in any decision
SetVolume ==
    /\ pc = "idle"
    /\ \E engineOk \in BOOLEAN :
       IF engine = "none" /\ ~engineOk
       THEN /\ pc' = "fatal"
            /\ ret' = "fatal"
            /\ lastLog' = "Failed to initialize miniaudio engine"
            /\ UNCHANGED engine
       ELSE /\ engine' = GetInstance(engine)
            /\ UNCHANGED <<pc, ret, lastLog>>
    /\ UNCHANGED <<m_lastDevicesList, m_selectedDeviceID, deviceVars,
                   m_resampler, soundVars, req, local, bufFreed,
                   context, atexit>>

(* --------------------------- process exit ------------------------------ *)
\* the event loop ends and the process starts destroying its singletons
Exit ==
    /\ pc = "idle"
    /\ pc' = "exit"
    /\ atexit' = ExitOrder
    /\ UNCHANGED <<m_lastDevicesList, m_selectedDeviceID, deviceVars,
                   m_resampler, soundVars, callVars, engine, context>>

\* ~CAudioEngine without the call of freeAllSounds
DestroyEngineSkipsSounds ==
    /\ pc = "exit" /\ atexit # <<>> /\ Head(atexit) = "CAudioEngine"
    /\ pc' = "engineUninit"
    /\ UNCHANGED <<m_lastDevicesList, m_selectedDeviceID, deviceVars,
                   m_resampler, soundVars, callVars, singletonVars>>

\* ~CAudioEngine, line 69: freeAllSounds(), which is
\* g_Audio.freeSounds(false) (audio.h:262-264)
DestroyEngineFreeAllSounds ==
    /\ pc = "exit" /\ atexit # <<>> /\ Head(atexit) = "CAudioEngine"
    /\ sounds' = Kept(FALSE)
    /\ payload' = DeleteReclaimed(FALSE)
    /\ local' = [local EXCEPT !.erased = Erased(FALSE)]
    /\ pc' = "engineUninit"
    /\ UNCHANGED <<m_lastDevicesList, m_selectedDeviceID, deviceVars,
                   m_resampler, nextSound, req, bufFreed, ret, lastLog,
                   singletonVars>>

\* ~CAudioEngine, lines 70-71: ma_engine_uninit
DestroyEngineUninit ==
    /\ pc = "engineUninit"
    /\ engine' = "uninit"
    /\ atexit' = Tail(atexit)
    /\ pc' = "exit"
    /\ UNCHANGED <<m_lastDevicesList, m_selectedDeviceID, deviceVars,
                   m_resampler, soundVars, callVars, context>>

\* audioDataCallback on the device thread once ma_engine_uninit has run and
\* the ma_engine has been freed (engine.reset(), line 71): pUserData still
\* holds the address, line 217 reads through it.  The read of the freed
\* object is undefined: it may go unnoticed, which changes nothing, or end
\* the process.
AudioDataCallbackAfterUninit ==
    /\ pc = "exit"
    /\ m_device.open /\ m_device.started
    /\ engine = "uninit"
    /\ pc' = "crashed"
    /\ UNCHANGED <<m_lastDevicesList, m_selectedDeviceID, deviceVars,
                   m_resampler, soundVars, callVars, singletonVars>>

\* ~Audio (audio.h:167): the members are destroyed in the reverse order of
\* their declaration; the registry's pointers are dropped, not deleted;
\* then the resampler (~CResampler) and the device (~CDevice) are closed
DestroyAudio ==
    /\ pc = "exit" /\ atexit # <<>> /\ Head(atexit) = "Audio"
    /\ sounds' = <<>>
    /\ m_lastDevicesList' = <<>>
    /\ m_resampler' = NoResampler
    /\ m_device' = NoDevice
    /\ atexit' = Tail(atexit)
    /\ UNCHANGED <<m_selectedDeviceID, m_currentDeviceID, m_hasCurrentDevice,
                   newDevice, payload, nextSound, pc, callVars, engine, context>>

\* ~CAudioContext (audio.h:33-36): ma_context_uninit
DestroyAudioContext ==
    /\ pc = "exit" /\ atexit # <<>> /\ Head(atexit) = "CAudioContext"
    /\ context' = "uninit"
    /\ atexit' = Tail(atexit)
    /\ pc' = "exited"
    /\ UNCHANGED <<m_lastDevicesList, m_selectedDeviceID, deviceVars,
                   m_resampler, soundVars, callVars, engine>>

\* the steps of the exiting process
Teardown ==
    \/ Exit
    \/ DestroyEngineFreeAllSounds
    \/ DestroyEngineUninit
    \/ AudioDataCallbackAfterUninit
    \/ DestroyAudio
    \/ DestroyAudioContext

(* ------------------------------ the system ----------------------------- *)
\* the run has room for the SoundPayload this call may allocate
HasRoom(r, Limit) ==
    \/ nextSound <= Limit
    \/ Validate(r.channels, r.sampleRate, r.bitsPerSample, r.bufferSize, r.buffer).ret # "pass"

\* every step the program and its environment can take, for enumerations
\* reporting a list of Lists, selectDevice indexes of Indexes, playAudioData
\* arguments of Requests and at most Limit SoundPayload allocations
NextWith(Lists, Indexes, Requests, Limit) ==
    \/ GetDevicesList(FALSE, <<>>)
    \/ \E deviceInfos \in Lists : GetDevicesList(TRUE, deviceInfos)
    \/ \E deviceIndex \in Indexes : SelectDevice(deviceIndex)
    \/ \E r \in Requests :
          /\ HasRoom(r, Limit)
          /\ PlayAudioData(r.channels, r.sampleRate, r.bitsPerSample, r.bufferSize,
                           r.buffer, r.bytes)
    \/ PlayGetDevices(FALSE, <<>>)
    \/ \E deviceInfos \in Lists : PlayGetDevices(TRUE, deviceInfos)
    \/ PlayFreeSounds
    \/ PlayUpdateDevice
    \/ PlayAssignDevice
    \/ PlayStartDevice
    \/ PlayUpdateResampler
    \/ PlayConvert
    \/ PlayBuild
    \/ Return
    \/ SetVolume
    \/ \E ended \in SUBSET SoundIds : AudioDataCallback(ended)

AllRequests ==
    {Request(c, r, b, n, p) : c \in ChannelArgs, r \in SampleRateArgs,
                              b \in BitsArgs, n \in SizeArgs, p \in BufferArgs}

Init == InitWith(DeviceLists)
Next == NextWith(DeviceLists, IndexArgs, AllRequests, MaxSounds) \/ Teardown
Spec == Init /\ [][Next]_vars


(* ------------------------------- slices -------------------------------- *)
\* The device, resampler and sound state are driven by different arguments.
\* TLC explores the system once per group of inputs.

\* device lifecycle: every enumeration and every index, one PCM format
DeviceRequests ==
    {r \in AllRequests : /\ r.channels \in {0, 1}
                         /\ r.sampleRate = AUDIO_DEFAULT_SAMPLE_RATE
                         /\ r.bitsPerSample = 16
                         /\ r.bufferSize \in {0, 2}}
SpecDevices ==
    InitWith(DeviceLists) /\ [][NextWith(DeviceLists, IndexArgs, DeviceRequests, MaxDeviceSounds)]_vars

\* the calls: every argument, a backend with no device or one default device
CallLists == {<<>>, <<DeviceInfo(1, TRUE)>>}
SpecCalls ==
    InitWith(CallLists) /\ [][NextWith(CallLists, {0}, AllRequests, MaxCallSounds)]_vars

\* the bit depths: every int from below zero to above the largest depth
\* determineFormat knows
FormatBitsArgs == -1..33
FormatRequests ==
    {Request(c, AUDIO_DEFAULT_SAMPLE_RATE, b, n, "heap") :
        c \in {0, 1}, b \in FormatBitsArgs, n \in {0, 4}}
SpecFormats ==
    InitWith(CallLists) /\ [][NextWith(CallLists, {0}, FormatRequests, MaxCallSounds)]_vars

\* conversion: buffers of whole and partial frames with distinguishable
\* contents, at the working rate, below it and above it
PcmSizeArgs == {2, 3}
PcmRateArgs == {22050, AUDIO_DEFAULT_SAMPLE_RATE, 96000}
PcmContents(sampleRate, n) ==
    IF sampleRate = AUDIO_DEFAULT_SAMPLE_RATE THEN BytesArgs(n) ELSE {Zeros(n)}
PcmRequests ==
    UNION {{[Request(c, nr[2], b, nr[1], "heap") EXCEPT !.bytes = d] :
               c \in {1, 2}, b \in {8, 16}, d \in PcmContents(nr[2], nr[1])} :
           nr \in PcmSizeArgs \X PcmRateArgs}
SpecPcm ==
    InitWith(CallLists) /\ [][NextWith(CallLists, {0}, PcmRequests, MaxCallSounds)]_vars

\* the sounds from registration to the exit of the process
\* the resampler over several calls: two formats, two channel counts, the
\* working rate and another one, a buffer of one frame
RateFormats == {<<1, 8>>, <<1, 16>>, <<2, 16>>}
RateRequests ==
    {Request(cb[1], r, cb[2], cb[1] * BytesPerSample(cb[2]), "heap") :
        cb \in RateFormats, r \in {22050, AUDIO_DEFAULT_SAMPLE_RATE}}
SpecRates ==
    InitWith(CallLists) /\ [][NextWith(CallLists, {0}, RateRequests, MaxRateSounds)]_vars

ExitRequests ==
    {Request(1, AUDIO_DEFAULT_SAMPLE_RATE, 16, n, "heap") : n \in {0, 2}}
SpecExit ==
    InitWith(CallLists)
    /\ [][NextWith(CallLists, {0}, ExitRequests, MaxSounds) \/ Teardown]_vars


(* ======================= buffer ownership and validation =============== *)
\* the checks of audio.cpp:40-56 reject this request
Rejected(r) ==
    \/ r.buffer = "null"
    \/ r.channels <= 0 \/ r.bitsPerSample <= 0 \/ r.sampleRate <= 0
    \/ r.bitsPerSample \notin {8, 16, 24, 32}

\* the step is a call of playAudioData
IsPlayCall == pc = "idle" /\ req'.buffer \in BufferArgs

\* C1: whenever playAudioData, given a non-null buffer, has returned (true or
\* false, on any branch), free(buffer) has run exactly once in that call.
C1_ReleasedOnceOnReturn ==
    (pc = "returned" /\ req.buffer = "heap") => bufFreed = 1

\* a call that resampled, registered its sound and returned true
C1_Witness ==
    /\ pc = "returned" /\ ret = "true" /\ req.buffer = "heap"
    /\ local.resampled /\ local.pPayload \in Range(sounds)
    /\ bufFreed = 1

\* C2: whenever playAudioData, given a non-null buffer, valid metadata and a
\* positive length, has ended with a fatal error (an exception), free(buffer)
\* has run exactly once in that call.
C2_ReleasedOnceOnFatal ==
    (pc = "fatal" /\ req.buffer = "heap") => bufFreed = 1

\* C3: a call with a null buffer, a non-positive channel count, bit depth or
\* sample rate, or a bit depth other than 8, 16, 24, 32 returns false at once,
\* whatever its length: the null check comes first (nothing is freed), then
\* the metadata check, then the bit depth check; it raises nothing and leaves
\* the last enumeration, the desired identity, the device, the resampler and
\* the registry as they were.
C3_RejectedCallsChangeNothing ==
    [][(IsPlayCall /\ Rejected(req')) =>
          /\ pc' = "returned" /\ ret' = "false"
          /\ bufFreed' = (IF req'.buffer = "null" THEN 0 ELSE 1)
          /\ lastLog' = (IF req'.buffer = "null" THEN "Speech buffer was nullptr"
                         ELSE IF req'.channels <= 0 \/ req'.bitsPerSample <= 0
                                 \/ req'.sampleRate <= 0
                         THEN "Invalid audio metadata"
                         ELSE "Unsupported bits per sample value")
          /\ UNCHANGED <<m_lastDevicesList, m_selectedDeviceID, deviceVars,
                         m_resampler, soundVars>>]_vars

\* a zero-length request with a non-positive channel count was refused while
\* a device is open and a sound is registered
C3_Witness ==
    /\ pc = "returned" /\ ret = "false"
    /\ req.buffer = "heap" /\ req.channels = 0 /\ req.bufferSize = 0
    /\ m_device.open /\ sounds # <<>>

\* C4: a call with a non-null buffer, valid metadata and length 0 returns
\* true at once: no payload is allocated or registered, no device is opened
\* or replaced, the resampler is neither created nor changed.
C4_ZeroLengthPlaysNothing ==
    [][(IsPlayCall /\ ~Rejected(req') /\ req'.bufferSize = 0) =>
          /\ pc' = "returned" /\ ret' = "true"
          /\ UNCHANGED <<m_lastDevicesList, m_selectedDeviceID, deviceVars,
                         m_resampler, soundVars>>]_vars

\* a zero-length request returned true before any device was opened
C4_Witness ==
    /\ pc = "returned" /\ ret = "true"
    /\ req.buffer = "heap" /\ req.bufferSize = 0
    /\ ~m_device.open /\ ~m_resampler.present /\ sounds = <<>>


(* =========================== device lifecycle ========================== *)
\* CDevice objects that hold an open native device
DeviceObjects ==
    (IF m_device.open THEN 1 ELSE 0) + (IF newDevice.open THEN 1 ELSE 0)

\* of these, the ones ma_device_start has started
StartedDevices ==
    (IF m_device.open /\ m_device.started THEN 1 ELSE 0)
    + (IF newDevice.open /\ newDevice.started THEN 1 ELSE 0)

\* C5 as stated: in every reachable state at most one Output Device object
\* holds native resources; the previous device is never alive together with
\* its replacement.
C5_AtMostOneDeviceObject == DeviceObjects <= 1

\* C5 as amended: outside the assignment that replaces the device at most
\* one Output Device object exists, none before the first successful open
\* and exactly one after it; while the replacement is being assigned the
\* previous device and the new one both exist, and the new one is started
\* only after the previous one is closed, so at most one device is started.
C5_OneDeviceOutsideReplacement ==
    /\ pc # "assignDevice" => DeviceObjects <= 1
    /\ pc = "assignDevice" => newDevice.open /\ ~newDevice.started
    /\ DeviceObjects <= 2
    /\ StartedDevices <= 1
    /\ m_hasCurrentDevice => m_device.open
    /\ (pc = "idle" /\ ~m_hasCurrentDevice) => DeviceObjects = 0

\* the replacement has just been assigned: the open device is the new one,
\* the recorded current identity still is the previous one's
C5_Witness ==
    /\ pc = "startDevice" /\ m_hasCurrentDevice
    /\ m_device.open /\ m_device.id # m_currentDeviceID
    /\ DeviceObjects = 1

\* C6 as stated: a playAudioData call entered while the open device is the
\* desired one never builds a new device.
C6_NoReopenWhenCurrent ==
    pc \in {"assignDevice", "startDevice"} => ~local.wasCurrent

\* C6 as amended: selecting the entry of the open device again leaves the
\* desired identity equal to the current one; a playAudioData call entered
\* in that state changes the device only if its own enumeration no longer
\* lists that device; and no step of a call removes a registered sound that
\* has not reached its end.
C6_NoReopenWhileListed ==
    [][/\ (local.wasCurrent /\ deviceVars' # deviceVars) =>
              ~HasDevice(m_lastDevicesList, m_currentDeviceID)
       /\ (/\ pc = "idle" /\ pc' = "selected" /\ m_hasCurrentDevice
           /\ req'.deviceIndex < Len(m_lastDevicesList)
           /\ m_lastDevicesList[req'.deviceIndex + 1].id = m_currentDeviceID) =>
              /\ m_selectedDeviceID' = m_currentDeviceID
              /\ UNCHANGED deviceVars
       /\ \A s \in Range(sounds) :
              ~payload[s].atEnd => s \in Range(sounds') /\ payload'[s].state = "live"
      ]_vars

\* a call entered with the open, started device desired got past the device
\* step with that device and with a sound still playing
C6_Witness ==
    /\ pc = "updateResampler" /\ local.wasCurrent
    /\ m_device.open /\ m_device.started /\ m_device.id = m_selectedDeviceID
    /\ Playing # {}

\* C7 as stated: after selectDevice(index) the desired identity is that of
\* entry index of the most recent enumeration, or of entry 0 when index is out
\* of range.
C7_SelectionIsAnEntry ==
    pc = "selected" =>
        /\ m_lastDevicesList # <<>>
        /\ m_selectedDeviceID =
               (IF req.deviceIndex < Len(m_lastDevicesList)
                THEN m_lastDevicesList[req.deviceIndex + 1].id
                ELSE m_lastDevicesList[1].id)

\* C7 as amended: when the most recent enumeration is not empty,
\* selectDevice(index) makes the desired identity that of entry index, or of
\* entry 0 when index is out of range; when it is empty, selectDevice leaves
\* the desired identity as it was.  It returns to its caller in every case.
C7_SelectionIsAnEntryUnlessEmpty ==
    [][(pc = "idle" /\ pc' = "selected") =>
          /\ ret' = "none"
          /\ m_selectedDeviceID' =
                 (IF m_lastDevicesList = <<>> THEN m_selectedDeviceID
                  ELSE IF req'.deviceIndex < Len(m_lastDevicesList)
                  THEN m_lastDevicesList[req'.deviceIndex + 1].id
                  ELSE m_lastDevicesList[1].id)]_vars

\* an out-of-range index was given for a list of two devices while the
\* second one was desired: the desired identity became that of entry 0
C7_Witness ==
    /\ pc = "selected" /\ Len(m_lastDevicesList) = 2
    /\ req.deviceIndex >= Len(m_lastDevicesList)
    /\ m_selectedDeviceID = m_lastDevicesList[1].id
    /\ m_hasCurrentDevice /\ m_currentDeviceID = m_lastDevicesList[2].id

\* C8: selectDevice changes nothing but the desired identity: the open
\* device, the recorded current identity, the resampler and the registry stay
\* as they were, and a device object appears, changes or disappears only in
\* the device step of playAudioData.
C8_SelectOnlyRecordsIntent ==
    [][/\ (pc = "idle" /\ pc' = "selected") =>
              UNCHANGED <<m_lastDevicesList, deviceVars, m_resampler, soundVars>>
       /\ (m_device' # m_device \/ newDevice' # newDevice) =>
              pc \in {"updateDevice", "assignDevice", "startDevice"}
      ]_vars

\* another device than the open one has been selected; the open device still
\* is the previous one
C8_Witness ==
    /\ pc = "selected" /\ m_hasCurrentDevice
    /\ m_selectedDeviceID # m_currentDeviceID
    /\ m_device.open /\ m_device.id = m_currentDeviceID

\* the call in progress is past updateDevice
PastDeviceStep ==
    \/ pc \in {"updateResampler", "convert", "build"}
    \/ pc = "returned" /\ local.pPayload > 0
    \/ pc = "returned" /\ lastLog = "Failed to get expected frame count for resampling"

\* C9: a validated playAudioData call goes on to re-enumerate; if the fresh
\* list is not empty and lacks the desired identity, the desired identity
\* becomes that of entry 0, otherwise it stays (so that, with the list
\* unchanged since selectDevice clamped to entry 0, entry 0 stays desired);
\* once the call is past the device step the open device is bound to the
\* desired identity, which is the current identity and is in the fresh list.
C9_DeviceResolvedFromFreshList ==
    [][/\ (IsPlayCall /\ ~Rejected(req') /\ req'.bufferSize > 0) => pc' = "getDevices"
       /\ (pc = "getDevices" /\ pc' = "freeSounds") =>
              /\ m_lastDevicesList' # <<>>
              /\ m_selectedDeviceID' =
                     (IF HasDevice(m_lastDevicesList', m_selectedDeviceID)
                      THEN m_selectedDeviceID ELSE m_lastDevicesList'[1].id)
       /\ PastDeviceStep' =>
              /\ m_device'.open /\ m_device'.id = m_selectedDeviceID'
              /\ m_hasCurrentDevice' /\ m_currentDeviceID' = m_selectedDeviceID'
              /\ HasDevice(m_lastDevicesList', m_selectedDeviceID')
      ]_vars

\* the desired device was missing from a fresh list of two devices and the
\* call has opened entry 0 in place of the device that was open before
C9_Witness ==
    /\ pc = "updateResampler" /\ Len(m_lastDevicesList) = 2
    /\ lastLog = "Selected audio device is unavailable. Falling back to index 0."
    /\ m_device.open /\ m_device.id = m_lastDevicesList[1].id
    /\ m_currentDeviceID = m_lastDevicesList[1].id

(* ============================ enumeration ============================== *)
IsPermutation(p, l) ==
    \E f \in Permutations(DOMAIN l) : p = [i \in DOMAIN l |-> l[f[i]]]

\* the position of device d in the list
Position(list, d) == CHOOSE k \in DOMAIN list : list[k].id = d.id

\* C10: the list getDevicesList returns is a permutation of the list the
\* backend reported, every default device comes before every non-default
\* device, and devices with the same is-default flag keep the backend's order.
C10_StableDefaultFirst ==
    pc = "listed" =>
        LET reported == local.deviceInfos
            returned == m_lastDevicesList
        IN /\ IsPermutation(returned, reported)
           /\ \A i, j \in DOMAIN returned :
                 i < j => ~DefaultFirst(returned[j], returned[i])
           /\ \A i, j \in DOMAIN reported :
                 (i < j /\ reported[i].isDefault = reported[j].isDefault) =>
                     Position(returned, reported[i]) < Position(returned, reported[j])

(* ============================== formats ================================ *)
\* C11: for every bit depth a caller passes, determineFormat yields the u8 tag
\* for 8, s16 for 16, s24 for 24, s32 for 32 and the unknown tag for any
\* other value, and a call with a non-null buffer and positive channels,
\* rate and bit depth is refused at the bit depth check (false, buffer
\* freed once) exactly when that tag is the unknown one.
C11_FormatsByBitDepth ==
    [][IsPlayCall =>
          LET bits == req'.bitsPerSample
          IN /\ bits = 8 => local'.format = "u8"
             /\ bits = 16 => local'.format = "s16"
             /\ bits = 24 => local'.format = "s24"
             /\ bits = 32 => local'.format = "s32"
             /\ bits \notin {8, 16, 24, 32} => local'.format = "unknown"
             /\ (/\ req'.buffer = "heap" /\ req'.channels > 0
                 /\ req'.sampleRate > 0 /\ bits > 0) =>
                    /\ ret' = "false" <=> bits \notin {8, 16, 24, 32}
                    /\ ret' = "false" =>
                          /\ lastLog' = "Unsupported bits per sample value"
                          /\ bufFreed' = 1 /\ pc' = "returned"]_vars

\* a depth of 33 bits was refused after a call of 24 bits had built a
\* resampler for the s24 format
C11_Witness ==
    /\ pc = "returned" /\ ret = "false" /\ req.bitsPerSample = 33
    /\ lastLog = "Unsupported bits per sample value"
    /\ m_resampler.present /\ m_resampler.format = "s24"

(* ============================= conversion ============================== *)
\* the call in progress got a non-null buffer of at least one byte with
\* valid metadata and its enumeration found a playback device
Validated ==
    /\ req.buffer = "heap" /\ ~Rejected(req) /\ req.bufferSize > 0
    /\ m_lastDevicesList # <<>>

\* the whole frames of the input: floor(byteLength * 8 / (channels * bits))
WholeFrames == (req.bufferSize * 8) \div (req.channels * req.bitsPerSample)

\* the native call that failed in the call in progress, if any, was logged
NativeFailureLogged ==
    lastLog \in {"Failed to get expected frame count for resampling",
                 "Failed to resample audio",
                 "Failed to initialize audio buffer",
                 "Failed to initialize sound instance"}

\* the payload of the call in progress is in the registry, once
RegisteredOnce ==
    Cardinality({i \in DOMAIN sounds : sounds[i] = local.pPayload}) = 1

C13_NoFramesIsSuccess ==
    (/\ pc = "returned" /\ Validated
     /\ local.pPayload > 0 /\ local.result # "MA_ERROR"
     /\ (WholeFrames = 0 \/ local.frameCountOut = 0)) =>
        /\ ret = "true"
        /\ payload[local.pPayload].state = "deleted"
        /\ local.pPayload \notin Range(sounds)

(* ============================== resampler ============================== *)
\* the resampler the call in progress finds has its format and channel count
SameFormatAndChannels ==
    /\ m_resampler.present
    /\ m_resampler.format = local.format
    /\ m_resampler.channels = req.channels

\* the step of the call in progress that runs updateResampler()
IsUpdateResampler == pc = "updateResampler" /\ pc' # "updateResampler"

\* C14: the resampler changes only in the updateResampler step of a call.
\* There a call that finds a resampler of its own format and channel count
\* never builds a CResampler: at the working rate it leaves the resampler as
\* it is, at another rate it sets the rate pair of the same object.  A call
\* that finds no resampler, or one of another format or channel count,
\* builds a new CResampler for its format, channels and rate, which replaces
\* the previous one (or the constructor throws, which ends the process).
C14_ResamplerReusedForSameFormat ==
    [][/\ ~IsUpdateResampler => m_resampler' = m_resampler
       /\ (IsUpdateResampler /\ SameFormatAndChannels) =>
              /\ local'.updateResampler # "constructed"
              /\ lastLog' # "Failed to initialize resampler"
              /\ req.sampleRate = AUDIO_DEFAULT_SAMPLE_RATE =>
                     /\ m_resampler' = m_resampler
                     /\ local'.updateResampler = "kept"
              /\ (req.sampleRate # AUDIO_DEFAULT_SAMPLE_RATE /\ pc' = "convert") =>
                     /\ local'.updateResampler = "rateSet"
                     /\ m_resampler' = [m_resampler EXCEPT
                                          !.sampleRateIn = req.sampleRate,
                                          !.sampleRateOut = 48000]
       /\ (IsUpdateResampler /\ ~SameFormatAndChannels) =>
              \/ /\ pc' = "convert"
                 /\ local'.updateResampler = "constructed"
                 /\ m_resampler' = [present |-> TRUE, format |-> local.format,
                                    channels |-> req.channels,
                                    sampleRateIn |-> req.sampleRate,
                                    sampleRateOut |-> 48000]
              \/ /\ pc' = "fatal"
                 /\ lastLog' = "Failed to initialize resampler"
                 /\ m_resampler' = m_resampler
      ]_vars

\* a call at 96000 Hz found the resampler an earlier call had built for its
\* format and channel count and set its rate
C14_Witness ==
    /\ pc = "convert" /\ local.updateResampler = "rateSet"
    /\ req.sampleRate = 96000 /\ m_resampler.sampleRateIn = 96000
    /\ m_resampler.format = local.format /\ m_resampler.channels = req.channels

\* C15: whenever a resampler exists its output rate is the working rate,
\* 48000 Hz.
C15_ResamplerTargetsWorkingRate ==
    m_resampler.present => m_resampler.sampleRateOut = 48000

\* the rate of an existing resampler was set for an input at 22050 Hz by a
\* call whose buffer has been converted and registered
C15_Witness ==
    /\ pc = "returned" /\ ret = "true" /\ local.updateResampler = "rateSet"
    /\ local.resampled /\ local.pPayload \in Range(sounds)
    /\ m_resampler.sampleRateIn = 22050 /\ m_resampler.sampleRateOut = 48000

(* =========================== sound registry ============================ *)
\* the step is freeSounds(true), made by playAudioData
IsReclaimFinished == pc = "freeSounds" /\ pc' = "updateDevice"

\* the step is freeSounds(false), made by ~CAudioEngine
IsReclaimAll == pc = "exit" /\ pc' = "engineUninit"

\* C16: freeSounds(true) removes from the registry and deletes exactly the
\* registered sounds that report their end and keeps every other one, in
\* order and untouched; freeSounds(false) removes and deletes every
\* registered sound and leaves the registry empty.  Each removed payload is
\* deleted once, no payload is ever deleted twice, and payloads outside the
\* registry are not touched.
C16_ReclaimRemovesExactlyTheFinished ==
    [][/\ IsReclaimFinished =>
              /\ sounds' = SelectSeq(sounds, LAMBDA s : ~payload[s].atEnd)
              /\ \A s \in Range(sounds) :
                     IF payload[s].atEnd
                     THEN payload'[s].state = "deleted" /\ payload'[s].deletes = 1
                     ELSE payload'[s] = payload[s]
              /\ \A s \in SoundIds \ Range(sounds) : payload'[s] = payload[s]
       /\ IsReclaimAll =>
              /\ sounds' = <<>>
              /\ \A s \in Range(sounds) :
                     payload'[s].state = "deleted" /\ payload'[s].deletes = 1
              /\ \A s \in SoundIds \ Range(sounds) : payload'[s] = payload[s]
       /\ \A s \in SoundIds : payload'[s].deletes <= 1
      ]_vars

\* of two registered sounds the one that had reached its end has just been
\* reclaimed and the one still playing is the registry
C16_Witness ==
    /\ pc = "updateDevice" /\ Len(sounds) = 1
    /\ Cardinality(local.finishedAtEntry) = 1
    /\ \A s \in local.finishedAtEntry : payload[s].state = "deleted"
    /\ payload[sounds[1]].state = "live" /\ sounds[1] \in Playing

\* C17: every payload in the registry is live (not deleted), has its data
\* source and its sound handle constructed and has been started; a deleted
\* payload is not in the registry and no payload is deleted twice.
C17_RegisteredSoundsAreStarted ==
    /\ \A s \in Range(sounds) :
           /\ payload[s].state = "live"
           /\ payload[s].audioBuffer /\ payload[s].sound
           /\ payload[s].started
    /\ \A s \in SoundIds :
           /\ payload[s].state = "deleted" => s \notin Range(sounds)
           /\ payload[s].deletes <= 1

\* the call in progress passed the checks of audio.cpp:40-60
PassedValidation(r) == r.buffer = "heap" /\ ~Rejected(r) /\ r.bufferSize > 0

\* C18 as stated: a registered sound leaves the registry only in the
\* finished-only reclaim of a playAudioData call or at teardown; a call
\* registers its sound only after that reclaim; and when a call that passed
\* validation has returned, no sound that had finished when it began is in
\* the registry.
C18_EveryValidatedCallReclaims ==
    [][/\ (\E s \in Range(sounds) : s \notin Range(sounds')) =>
              IsReclaimFinished \/ IsReclaimAll
       /\ Len(sounds') > Len(sounds) =>
              pc = "build" /\ Range(sounds) \cap local.finishedAtEntry = {}
       /\ (pc' = "returned" /\ PassedValidation(req')) =>
              Range(sounds') \cap local'.finishedAtEntry = {}
      ]_vars

\* C18 as amended: a registered sound leaves the registry only in the
\* finished-only reclaim of a playAudioData call or at teardown; a call
\* registers its sound only after that reclaim; when a call that passed
\* validation and found a playback device has returned, no sound that had
\* finished when it began is in the registry; a call that passed validation
\* and found no playback device returns false without reclaiming anything.
C18_ValidatedCallWithDeviceReclaims ==
    [][/\ (\E s \in Range(sounds) : s \notin Range(sounds')) =>
              IsReclaimFinished \/ IsReclaimAll
       /\ Len(sounds') > Len(sounds) =>
              pc = "build" /\ Range(sounds) \cap local.finishedAtEntry = {}
       /\ (pc' = "returned" /\ PassedValidation(req') /\ m_lastDevicesList' # <<>>) =>
              Range(sounds') \cap local'.finishedAtEntry = {}
       /\ (pc = "getDevices" /\ pc' = "returned") =>
              /\ m_lastDevicesList' = <<>> /\ ret' = "false"
              /\ sounds' = sounds /\ payload' = payload
      ]_vars

\* a sound that had finished before the call began was reclaimed and the
\* call has registered its own
C18_Witness ==
    /\ pc = "returned" /\ ret = "true" /\ PassedValidation(req)
    /\ local.finishedAtEntry # {}
    /\ \A s \in local.finishedAtEntry : payload[s].state = "deleted"
    /\ local.pPayload \in Range(sounds)

(* ======================== construction failures ======================== *)
\* the construction of the data source or of the sound handle failed in the
\* call in progress
ConstructionFailed ==
    lastLog \in {"Failed to initialize audio buffer",
                 "Failed to initialize sound instance"}

\* C19: when the construction of the data source or of the sound handle has
\* failed, the call has ended with a fatal error, not with a return of
\* false; the native resources constructed for the payload have been torn
\* down once each, in reverse order of construction (none when the data
\* source failed, the data source alone when the sound handle failed), the
\* payload is deleted and nothing is registered for the call.
C19_ConstructionFailureIsFatal ==
    ConstructionFailed =>
        /\ pc = "fatal" /\ ret = "fatal"
        /\ local.uninits = (IF lastLog = "Failed to initialize audio buffer"
                            THEN <<>> ELSE <<"ma_audio_buffer_uninit">>)
        /\ payload[local.pPayload].state = "deleted"
        /\ payload[local.pPayload].deletes = 1
        /\ local.pPayload \notin Range(sounds)

(* ============================== teardown =============================== *)
\* the payloads that exist: allocated and not deleted
LivePayloads == {s \in SoundIds : payload[s].state = "live"}

\* C20: at process exit the Mixing Engine is uninitialised only when the
\* Sound Registry has been flushed (the registry is empty and no payload is
\* left alive, each one deleted once), and the Backend Handle is
\* uninitialised only when the Mixing Engine no longer is initialised and
\* no payload is alive: Sound Registry, then Mixing Engine, then Backend
\* Handle.
C20_RegistryThenEngineThenBackend ==
    [][/\ (engine = "live" /\ engine' = "uninit") =>
              /\ sounds = <<>> /\ LivePayloads = {}
              /\ \A s \in SoundIds : payload[s].deletes <= 1
              /\ context = "live" /\ context' = "live"
       /\ (context = "live" /\ context' = "uninit") =>
              /\ engine # "live"
              /\ sounds = <<>> /\ LivePayloads = {}
      ]_vars

\* the process has exited: the unconditional flush took two sounds out of the
\* registry, the engine and then the Backend Handle were uninitialised
C20_Witness ==
    /\ pc = "exited" /\ local.erased = 2
    /\ engine = "uninit" /\ context = "uninit"
    /\ sounds = <<>> /\ LivePayloads = {}

(* ========================= the pull callback =========================== *)
\* the step is a run of audioDataCallback: a sound reaches its end only
\* within the frames ma_engine_read_pcm_frames reads
IsCallback == \E s \in SoundIds : ~payload[s].atEnd /\ payload'[s].atEnd

\* C21: a run of the pull callback, at any position of selectDevice or
\* playAudioData, leaves the desired and the current device identity, the
\* has-current flag, the device object, the resampler, the Sound Registry
\* and the call in progress as they are; it runs with an engine handle (an
\* open device always holds the handle of a constructed engine, so the
\* branch without a handle is never taken) and its only effect is that of
\* the frames pulled from the Mixing Engine: sounds that were playing reach
\* their end.
C21_CallbackOnlyPullsFrames ==
    [][/\ IsCallback =>
              /\ UNCHANGED <<m_selectedDeviceID, m_currentDeviceID,
                             m_hasCurrentDevice, m_device, newDevice,
                             m_resampler, sounds, nextSound, m_lastDevicesList,
                             pc, callVars, singletonVars>>
              /\ engine = "live"
              /\ \A s \in SoundIds :
                     \/ payload'[s] = payload[s]
                     \/ /\ s \in Playing
                        /\ payload'[s] = [payload[s] EXCEPT !.atEnd = TRUE]
       /\ (m_device.open \/ newDevice.open) => engine # "none"
      ]_vars

\* a playAudioData call is past its reclaim and a registered sound that was
\* still playing when the call began has reached its end: the callback ran
\* in the middle of the call
C21_Witness ==
    /\ pc \in {"updateDevice", "assignDevice", "startDevice",
               "updateResampler", "convert", "build"}
    /\ \E s \in Range(sounds) :
           payload[s].atEnd /\ s \notin local.finishedAtEntry

(* ================= the resampler across several calls ================== *)
\* C22: when a call is about to run the resampler (its rate is not the
\* working rate and updateResampler has returned), the resampler exists and
\* its sample format, channel count and input rate are those of the call,
\* whatever the calls before it asked for.
C22_ResamplerMatchesRequest ==
    (pc = "convert" /\ req.sampleRate # AUDIO_DEFAULT_SAMPLE_RATE) =>
        /\ m_resampler.present
        /\ m_resampler.format = local.format
        /\ m_resampler.channels = req.channels
        /\ m_resampler.sampleRateIn = req.sampleRate

\* a call at 22050 Hz is about to run the resampler, which an earlier call
\* at the working rate, whose sound is in the registry, had left at the
\* rate pair of a call before it: the rate was set on the same object
C22_Witness ==
    /\ pc = "convert" /\ req.sampleRate = 22050
    /\ local.updateResampler = "rateSet"
    /\ m_resampler.sampleRateIn = 22050
    /\ sounds # <<>>
    /\ payload[sounds[1]].pcmData = Zeros(Len(payload[sounds[1]].pcmData))

(* ========================= the current device ========================== *)
\* C23: whenever the has-current flag is set (and updateDevice is not
\* between the assignment of the new device and the recording of its
\* identity), the open device object is bound to the recorded current
\* identity and has been started successfully; a device whose start failed
\* is not recorded as current.
C23_CurrentDeviceIsStarted ==
    (m_hasCurrentDevice /\ pc # "startDevice") =>
        /\ m_device.open
        /\ m_device.id = m_currentDeviceID
        /\ m_device.started

\* C24: when opening the new device fails in updateDevice, the call ends
\* there with the exception of CDevice's constructor: the previous device
\* object, open and running or absent, the recorded current identity, the
\* has-current flag, the resampler and the Sound Registry are as they were
\* before the step, no payload is allocated for the request and no second
\* device object is left behind.
C24_FailedOpenChangesNothing ==
    [][(pc = "updateDevice" /\ lastLog' = "Failed to initialize audio device") =>
           /\ pc' = "fatal" /\ ret' = "fatal"
           /\ ~DeviceIsCurrent
           /\ UNCHANGED <<m_device, newDevice, m_currentDeviceID,
                          m_hasCurrentDevice, m_selectedDeviceID, m_resampler,
                          sounds, payload, nextSound>>
           /\ ~newDevice.open
      ]_vars

\* opening the device selected in place of the open and running one has
\* failed: the previous device is still open and running and still the
\* current one
C24_Witness ==
    /\ pc = "fatal" /\ lastLog = "Failed to initialize audio device"
    /\ m_device.open /\ m_device.started
    /\ m_hasCurrentDevice /\ m_device.id = m_currentDeviceID
    /\ m_currentDeviceID # m_selectedDeviceID
    /\ local.pPayload = 0

(* ================= the pull callback during teardown =================== *)
\* C25: once the Mixing Engine has been uninitialised no device object is
\* open any more (the device that holds the engine handle as its callback
\* context was closed before), and the callback has never read from the
\* uninitialised engine.
C25_DeviceClosedBeforeEngine ==
    /\ engine = "uninit" => ~m_device.open
    /\ pc # "crashed"

====
